---------------------------- MODULE Spec2Model ----------------------------
(*************************************************************************)
(* Wire codec of the hamgo cache-synchronisation protocol                *)
(* (protocol/upd.go): the envelope UpdPayload, the cache request         *)
(* UpdPayloadCacheRequest and the cache response UpdPayloadCacheResponse,*)
(* with their entry codecs.  A byte buffer is a sequence of numbers in   *)
(* 0..255; a Go slice expression buf[a:b] is SubSeq(buf, a+1, b).        *)
(* int is taken as 64 bits wide (amd64/arm64 builds).                    *)
(*************************************************************************)
EXTENDS Integers, Sequences, FiniteSets, TLC

(***************************** bounds ************************************)
\* longest Data / Callsign / Payload drawn for an input value
MaxData == 2
\* most entries drawn for the list of an input value
MaxEntries == 2
\* most slots drawn for a structured buffer
MaxSlots == 3
\* largest declared count drawn for a buffer or a NumEntries field
MaxCount == 3
\* longest raw (unstructured) buffer drawn for the envelope decoder
MaxRaw == 5
\* most bytes cut from the end of a structured buffer
MaxCut == 1

(***************************** byte helpers ******************************)
\* buf[from:]
SliceFrom(buf, from) == SubSeq(buf, from + 1, Len(buf))

\* buf[lo:hi]
Slice(buf, lo, hi) == SubSeq(buf, lo + 1, hi)

\* binary.LittleEndian.PutUintN: the n low bytes of v, least significant first
RECURSIVE PutUint(_, _)
PutUint(v, n) == IF n = 0 THEN << >> ELSE <<v % 256>> \o PutUint(v \div 256, n - 1)

\* binary.LittleEndian.UintN: the value of the bytes b, least significant first
RECURSIVE Uint(_)
Uint(b) == IF b = << >> THEN 0 ELSE Head(b) + 256 * Uint(Tail(b))

\* A uint64 is held as three limbs <<l0, l1, l2>> of 24, 24 and 16 bits, of
\* value l0 + 2^24 * l1 + 2^48 * l2, so that every 64-bit value is a value
\* of the model.
U64(n) == <<n % 16777216, n \div 16777216, 0>>

\* binary.LittleEndian.PutUint64
PutUint64(v) == PutUint(v[1], 3) \o PutUint(v[2], 3) \o PutUint(v[3], 2)

\* binary.LittleEndian.Uint64 of the 8 bytes b
Uint64(b) == <<Uint(SubSeq(b, 1, 3)), Uint(SubSeq(b, 4, 6)), Uint(SubSeq(b, 7, 8))>>

\* all sequences over S of length at most n
SeqsUpTo(S, n) == UNION {[1..k -> S] : k \in 0..n}

\* concatenation of a sequence of byte buffers
RECURSIVE Concat(_)
Concat(bufs) == IF bufs = << >> THEN << >> ELSE Head(bufs) \o Concat(Tail(bufs))

Min(a, b) == IF a < b THEN a ELSE b

(***************** external codecs: Contact and Message ******************)
\* Contact: a type byte, then a length-prefixed callsign (self-delimiting).
ContactTypeValid == 1

NoContact == [Type |-> 0, Callsign |-> << >>]

ContactBytes(c) == <<c.Type, Len(c.Callsign)>> \o c.Callsign

\* (contact-or-nil, remaining bytes)
ParseContact(buf) ==
  IF Len(buf) < 2 \/ buf[1] # ContactTypeValid \/ Len(buf) < 2 + buf[2]
  THEN [nil |-> TRUE, ct |-> NoContact, rest |-> << >>]
  ELSE [nil |-> FALSE,
        ct |-> [Type |-> buf[1], Callsign |-> Slice(buf, 2, 2 + buf[2])],
        rest |-> SliceFrom(buf, 2 + buf[2])]

\* Message: a version byte, then a length-prefixed payload (self-delimiting).
MessageVersion == 1

NoMessage == [Version |-> 0, Payload |-> << >>]

MessageBytes(m) == <<m.Version, Len(m.Payload)>> \o m.Payload

\* message-or-nil; bytes after the message are left to the caller
ParseMessage(buf) ==
  IF Len(buf) < 2 \/ buf[1] # MessageVersion \/ Len(buf) < 2 + buf[2]
  THEN [nil |-> TRUE, msg |-> NoMessage]
  ELSE [nil |-> FALSE,
        msg |-> [Version |-> buf[1], Payload |-> Slice(buf, 2, 2 + buf[2])]]

(************************ response entry codec ***************************)
NoPayloadEntry == [Length |-> 0, Message |-> NoMessage]

\* (e *UpdPayloadEntry) Bytes: the Length field is not read
UpdPayloadEntryBytes(e) ==
  LET msb == MessageBytes(e.Message)
  IN  PutUint(Len(msb), 4) \o msb

\* ParsePayloadEntry: (entry-or-nil, remaining buffer)
ParsePayloadEntry(buf) ==
  IF Len(buf) < 4
  THEN [nil |-> TRUE, entry |-> NoPayloadEntry, rest |-> << >>]
  ELSE LET length == Uint(Slice(buf, 0, 4))
       IN  IF Len(buf) < 4 + length
           THEN [nil |-> TRUE, entry |-> NoPayloadEntry, rest |-> << >>]
           ELSE LET m == ParseMessage(SliceFrom(buf, 4))
                IN  IF m.nil
                    THEN [nil |-> TRUE, entry |-> NoPayloadEntry,
                          rest |-> SliceFrom(buf, 4 + length)]
                    ELSE [nil |-> FALSE,
                          entry |-> [Length |-> length, Message |-> m.msg],
                          rest |-> SliceFrom(buf, 4 + length)]

(************************* request entry codec ***************************)
NoCacheEntry == [SeqCounter |-> U64(0), Source |-> NoContact]

\* (e *UpdRequestCacheEntry) Bytes: the buffer is len(ct)+4 long, buf[0:8]
\* panics when that is below 8, and copy stops at the end of the buffer.
UpdRequestCacheEntryBytes(e) ==
  LET ct == ContactBytes(e.Source)
  IN  IF Len(ct) + 4 < 8
      THEN [panic |-> TRUE, buf |-> << >>]
      ELSE [panic |-> FALSE,
            buf |-> PutUint64(e.SeqCounter)
                      \o Slice(ct, 0, Min(Len(ct), Len(ct) + 4 - 8))]

\* the entry a missing contact check would hand back
ParseCacheEntryNoCheck(buf) ==
  IF Len(buf) < 9
  THEN [nil |-> TRUE, entry |-> NoCacheEntry, rest |-> << >>]
  ELSE LET c == ParseContact(SliceFrom(buf, 8))
       IN  [nil |-> FALSE,
            entry |-> [SeqCounter |-> Uint64(Slice(buf, 0, 8)), Source |-> c.ct],
            rest |-> c.rest]

\* ParseCacheEntry: (entry-or-nil, remaining buffer)
ParseCacheEntry(buf) ==
  IF Len(buf) < 9
  THEN [nil |-> TRUE, entry |-> NoCacheEntry, rest |-> << >>]
  ELSE LET c == ParseContact(SliceFrom(buf, 8))
       IN  IF c.nil
           THEN [nil |-> TRUE, entry |-> NoCacheEntry, rest |-> << >>]
           ELSE [nil |-> FALSE,
                 entry |-> [SeqCounter |-> Uint64(Slice(buf, 0, 8)), Source |-> c.ct],
                 rest |-> c.rest]

(***************************** list encoders *****************************)
\* the encodings of the entries of a request, in order
RequestEntryBufs(r) == [k \in 1..Len(r.Entries) |-> UpdRequestCacheEntryBytes(r.Entries[k])]

\* a request encoder that counts its list instead of reading the field
UpdPayloadCacheRequestBytesCounting(r) ==
  LET ent == RequestEntryBufs(r)
  IN  IF \E k \in 1..Len(ent) : ent[k].panic
      THEN [panic |-> TRUE, buf |-> << >>]
      ELSE [panic |-> FALSE,
            buf |-> PutUint(Len(r.Entries), 4)
                      \o Concat([k \in 1..Len(ent) |-> ent[k].buf])]

\* (r *UpdPayloadCacheRequest) Bytes: the count written is the NumEntries field
UpdPayloadCacheRequestBytes(r) ==
  LET ent == RequestEntryBufs(r)
  IN  IF \E k \in 1..Len(ent) : ent[k].panic
      THEN [panic |-> TRUE, buf |-> << >>]
      ELSE [panic |-> FALSE,
            buf |-> PutUint(r.NumEntries, 4)
                      \o Concat([k \in 1..Len(ent) |-> ent[k].buf])]

\* (r *UpdPayloadCacheResponse) Bytes: the count written is the NumEntries field
UpdPayloadCacheResponseBytes(r) ==
  [panic |-> FALSE,
   buf |-> PutUint(r.NumEntries, 4)
             \o Concat([k \in 1..Len(r.Entries) |-> UpdPayloadEntryBytes(r.Entries[k])])]

(***************************** list decoders *****************************)
\* One record per run of an entry loop: the entries appended, the number of
\* loop bodies executed, and the number of bodies that consumed no byte and
\* were followed by another body.
LoopStall(i, num) == IF i + 1 < num THEN 1 ELSE 0

\* the response loop without the reset of idx after an entry
RECURSIVE CacheResponseLoopNoReset(_, _, _, _, _)
CacheResponseLoopNoReset(buf, idx, i, num, entries) ==
  IF i >= num
  THEN [Entries |-> entries, iters |-> 0, stalls |-> 0]
  ELSE LET p == ParsePayloadEntry(SliceFrom(buf, idx))
           r == IF p.nil
                THEN CacheResponseLoopNoReset(buf, idx, i + 1, num, entries)
                ELSE CacheResponseLoopNoReset(p.rest, Min(idx, Len(p.rest)), i + 1, num,
                                              Append(entries, p.entry))
       IN  [Entries |-> r.Entries, iters |-> r.iters + 1,
            stalls |-> r.stalls + (IF p.nil THEN LoopStall(i, num) ELSE 0)]

\* the loop of ParsePayloadCacheResponse, entered with loop counter i, the
\* buffer buf and the cursor idx into it
RECURSIVE CacheResponseLoop(_, _, _, _, _)
CacheResponseLoop(buf, idx, i, num, entries) ==
  IF i >= num
  THEN [Entries |-> entries, iters |-> 0, stalls |-> 0]
  ELSE LET p == ParsePayloadEntry(SliceFrom(buf, idx))
           r == IF p.nil
                THEN CacheResponseLoop(buf, idx, i + 1, num, entries)
                ELSE CacheResponseLoop(p.rest, 0, i + 1, num, Append(entries, p.entry))
       IN  [Entries |-> r.Entries, iters |-> r.iters + 1,
            stalls |-> r.stalls + (IF p.nil THEN LoopStall(i, num) ELSE 0)]

NoCacheResponse == [nil |-> TRUE, NumEntries |-> 0, Entries |-> << >>]

\* ParsePayloadCacheResponse
ParsePayloadCacheResponse(buf) ==
  IF Len(buf) < 4
  THEN NoCacheResponse
  ELSE LET num == Uint(Slice(buf, 0, 4))
       IN  [nil |-> FALSE, NumEntries |-> num,
            Entries |-> CacheResponseLoop(buf, 4, 0, num, << >>).Entries]

\* the request loop without the step to the remaining buffer
RECURSIVE CacheRequestLoopNoAdvance(_, _, _, _)
CacheRequestLoopNoAdvance(buf, i, num, entries) ==
  IF i >= num
  THEN [Entries |-> entries, iters |-> 0, stalls |-> 0]
  ELSE LET p == ParseCacheEntry(buf)
           r == IF p.nil
                THEN CacheRequestLoopNoAdvance(buf, i + 1, num, entries)
                ELSE CacheRequestLoopNoAdvance(buf, i + 1, num, Append(entries, p.entry))
       IN  [Entries |-> r.Entries, iters |-> r.iters + 1,
            stalls |-> r.stalls + (IF p.nil THEN LoopStall(i, num) ELSE 0)]

\* the loop of ParsePayloadCacheRequest, entered with loop counter i and the
\* buffer buf (already past the count)
RECURSIVE CacheRequestLoop(_, _, _, _)
CacheRequestLoop(buf, i, num, entries) ==
  IF i >= num
  THEN [Entries |-> entries, iters |-> 0, stalls |-> 0]
  ELSE LET p == ParseCacheEntry(buf)
           r == IF p.nil
                THEN CacheRequestLoop(buf, i + 1, num, entries)
                ELSE IF Len(p.rest) = 0
                     THEN [Entries |-> Append(entries, p.entry), iters |-> 0, stalls |-> 0]
                     ELSE CacheRequestLoop(p.rest, i + 1, num, Append(entries, p.entry))
       IN  [Entries |-> r.Entries, iters |-> r.iters + 1,
            stalls |-> r.stalls + (IF p.nil THEN LoopStall(i, num) ELSE 0)]

NoCacheRequest == [nil |-> TRUE, NumEntries |-> 0, Entries |-> << >>]

\* a request decoder whose header check is off by one
ParsePayloadCacheRequestOffByOne(buf) ==
  IF Len(buf) < 5
  THEN NoCacheRequest
  ELSE LET num == Uint(Slice(buf, 0, 4))
       IN  [nil |-> FALSE, NumEntries |-> num,
            Entries |-> CacheRequestLoop(SliceFrom(buf, 4), 0, num, << >>).Entries]

\* ParsePayloadCacheRequest
ParsePayloadCacheRequest(buf) ==
  IF Len(buf) < 4
  THEN NoCacheRequest
  ELSE LET num == Uint(Slice(buf, 0, 4))
       IN  [nil |-> FALSE, NumEntries |-> num,
            Entries |-> CacheRequestLoop(SliceFrom(buf, 4), 0, num, << >>).Entries]

(******************************* envelope ********************************)
\* (u *UpdPayload) Bytes.  u.Data is a slice of length Len(u.Data) whose
\* backing array goes on with the bytes u.Spare; u.Data[:DataLength] panics
\* when DataLength exceeds the capacity.
UpdPayloadBytes(u) ==
  IF u.DataLength > Len(u.Data) + Len(u.Spare)
  THEN [panic |-> TRUE, buf |-> << >>]
  ELSE [panic |-> FALSE,
        buf |-> <<u.Operation>> \o PutUint(u.DataLength, 2)
                  \o Slice(u.Data \o u.Spare, 0, u.DataLength)]

NoUpdPayload == [err |-> TRUE, Operation |-> 0, DataLength |-> 0, Data |-> << >>]

\* an envelope decoder whose length check is off by one
ParseUpdPayloadOffByOne(buf) ==
  IF Len(buf) < 3
  THEN NoUpdPayload
  ELSE LET dl == Uint(Slice(buf, 1, 3))
       IN  IF Len(buf) - 3 <= dl
           THEN NoUpdPayload
           ELSE [err |-> FALSE, Operation |-> buf[1], DataLength |-> dl,
                 Data |-> Slice(buf, 3, 3 + dl)]

\* ParseUpdPayload: (envelope-or-nil, error)
ParseUpdPayload(buf) ==
  IF Len(buf) < 3
  THEN NoUpdPayload
  ELSE LET dl == Uint(Slice(buf, 1, 3))
       IN  IF Len(buf) - 3 < dl \/ Len(buf) < 3 + dl
           THEN NoUpdPayload
           ELSE [err |-> FALSE, Operation |-> buf[1], DataLength |-> dl,
                 Data |-> Slice(buf, 3, 3 + dl)]

(************************** inputs of the model **************************)
DataBytes == {3, 4}
CallsignBytes == {7}
PayloadBytes == {5}
RawBytes == {0, 1, 2}
SeqCounters == {U64(1), U64(258)}

Contacts == [Type : {ContactTypeValid}, Callsign : SeqsUpTo(CallsignBytes, MaxData)]
Messages == [Version : {MessageVersion}, Payload : SeqsUpTo(PayloadBytes, MaxData)]

EnvValues ==
  [Operation : {0, 1}, DataLength : 0..(MaxData + 1),
   Data : SeqsUpTo(DataBytes, MaxData), Spare : {<< >>, <<9>>}]

ReqValues ==
  [NumEntries : 0..MaxCount,
   Entries : SeqsUpTo([SeqCounter : SeqCounters, Source : Contacts], MaxEntries)]

RespEntryValues ==
  {[Length |-> l, Message |-> m] : l \in {0} \cup {Len(MessageBytes(mm)) : mm \in Messages},
                                   m \in Messages}

RespValues == [NumEntries : 0..MaxCount, Entries : SeqsUpTo(RespEntryValues, MaxEntries)]

\* unstructured buffers for the envelope decoder
RawBuffers == SeqsUpTo(RawBytes, MaxRaw)

\* unstructured buffers for the list decoders: too short for a count, or a
\* count followed by a few arbitrary bytes
ListRawBuffers ==
  SeqsUpTo(RawBytes, 3)
    \cup {PutUint(c, 4) \o t : c \in 0..MaxCount, t \in SeqsUpTo(RawBytes, 2)}

\* a slot of a structured request buffer: a well-formed entry, or (bad) one
\* whose contact bytes do not decode (9 is a type byte no Contact has)
SlotContacts == [Type : {ContactTypeValid}, Callsign : SeqsUpTo(CallsignBytes, 1)]
ReqSlots == [SeqCounter : SeqCounters, Source : SlotContacts, bad : BOOLEAN]

ReqSlotBytes(s) ==
  LET ct == ContactBytes(s.Source)
  IN  PutUint64(s.SeqCounter)
        \o (IF s.bad THEN <<9>> \o Tail(ct) ELSE ct)

ReqSlotEntry(s) == [SeqCounter |-> s.SeqCounter, Source |-> s.Source]

\* a slot of a structured response buffer: a correct length prefix, then the
\* message bytes or (bad) garbage of the same length (8 is a version byte no
\* Message has)
SlotMessages == [Version : {MessageVersion}, Payload : SeqsUpTo(PayloadBytes, 1)]
RespSlots == [Message : SlotMessages, bad : BOOLEAN]

RespSlotBytes(s) ==
  LET msb == MessageBytes(s.Message)
  IN  PutUint(Len(msb), 4)
        \o (IF s.bad THEN <<8>> \o Tail(msb) ELSE msb)

RespSlotEntry(s) == [Length |-> Len(MessageBytes(s.Message)), Message |-> s.Message]

\* the buffer of a plan: the count, the slots, the last `cut` bytes removed
PlanBuffer(count, slotBufs, cut) ==
  LET full == PutUint(count, 4) \o Concat(slotBufs)
  IN  Slice(full, 0, Len(full) - cut)

Cuts(slots) == IF slots = << >> THEN {0} ELSE 0..MaxCut

(******************************** state **********************************)
VARIABLES
  kind,      \* "env", "req" or "resp": the codec exercised
  mode,      \* "value": encode a value, then decode; "raw", "plan": decode a buffer
  pc,        \* "ready", "encoded", "decoded"
  env,       \* the UpdPayload to encode
  req,       \* the UpdPayloadCacheRequest to encode
  resp,      \* the UpdPayloadCacheResponse to encode
  count,     \* plan: the declared count
  reqSlots,  \* plan: the slots of a request buffer
  respSlots, \* plan: the slots of a response buffer
  cut,       \* plan: bytes removed from the end
  wire,      \* the byte buffer: encoder output, decoder input
  panicked,  \* the encoder panicked
  decEnv,    \* result of ParseUpdPayload
  decReq,    \* result of ParsePayloadCacheRequest
  decResp,   \* result of ParsePayloadCacheResponse
  loop       \* iterations and stalls of the decoder's entry loop

vars == <<kind, mode, pc, env, req, resp, count, reqSlots, respSlots, cut, wire,
          panicked, decEnv, decReq, decResp, loop>>

NoEnvValue == [Operation |-> 0, DataLength |-> 0, Data |-> << >>, Spare |-> << >>]
NoListValue == [NumEntries |-> 0, Entries |-> << >>]
NoLoop == [iters |-> 0, stalls |-> 0]

InitRest ==
  /\ pc = "ready"
  /\ panicked = FALSE
  /\ decEnv = NoUpdPayload
  /\ decReq = NoCacheRequest
  /\ decResp = NoCacheResponse
  /\ loop = NoLoop

InitValue ==
  /\ mode = "value"
  /\ kind \in {"env", "req", "resp"}
  /\ env \in (IF kind = "env" THEN EnvValues ELSE {NoEnvValue})
  /\ req \in (IF kind = "req" THEN ReqValues ELSE {NoListValue})
  /\ resp \in (IF kind = "resp" THEN RespValues ELSE {NoListValue})
  /\ count = 0 /\ reqSlots = << >> /\ respSlots = << >> /\ cut = 0
  /\ wire = << >>

InitRaw ==
  /\ mode = "raw"
  /\ kind \in {"env", "req", "resp"}
  /\ env = NoEnvValue /\ req = NoListValue /\ resp = NoListValue
  /\ count = 0 /\ reqSlots = << >> /\ respSlots = << >> /\ cut = 0
  /\ wire \in (IF kind = "env" THEN RawBuffers ELSE ListRawBuffers)

InitPlan ==
  /\ mode = "plan"
  /\ kind \in {"req", "resp"}
  /\ env = NoEnvValue /\ req = NoListValue /\ resp = NoListValue
  /\ count \in 0..MaxCount
  /\ reqSlots \in (IF kind = "req" THEN SeqsUpTo(ReqSlots, MaxSlots) ELSE {<< >>})
  /\ respSlots \in (IF kind = "resp" THEN SeqsUpTo(RespSlots, MaxSlots) ELSE {<< >>})
  /\ cut \in Cuts(reqSlots \o respSlots)
  /\ wire = PlanBuffer(count,
                       IF kind = "req"
                       THEN [k \in 1..Len(reqSlots) |-> ReqSlotBytes(reqSlots[k])]
                       ELSE [k \in 1..Len(respSlots) |-> RespSlotBytes(respSlots[k])],
                       cut)

Init == (InitValue \/ InitRaw \/ InitPlan) /\ InitRest

(******************************* actions *********************************)
Inputs == <<kind, mode, env, req, resp, count, reqSlots, respSlots, cut>>

\* the decoder runs on a buffer given as input, or on what the encoder returned
CanDecode == IF mode = "value" THEN pc = "encoded" /\ ~panicked ELSE pc = "ready"

EncodeEnvelope ==
  /\ kind = "env" /\ mode = "value" /\ pc = "ready"
  /\ LET r == UpdPayloadBytes(env)
     IN  panicked' = r.panic /\ wire' = r.buf
  /\ pc' = "encoded"
  /\ UNCHANGED <<Inputs, decEnv, decReq, decResp, loop>>

DecodeEnvelope ==
  /\ kind = "env" /\ CanDecode
  /\ decEnv' = ParseUpdPayload(wire)
  /\ pc' = "decoded"
  /\ UNCHANGED <<Inputs, wire, panicked, decReq, decResp, loop>>

EncodeCacheRequest ==
  /\ kind = "req" /\ mode = "value" /\ pc = "ready"
  /\ LET r == UpdPayloadCacheRequestBytes(req)
     IN  panicked' = r.panic /\ wire' = r.buf
  /\ pc' = "encoded"
  /\ UNCHANGED <<Inputs, decEnv, decReq, decResp, loop>>

DecodeCacheRequest ==
  /\ kind = "req" /\ CanDecode
  /\ decReq' = ParsePayloadCacheRequest(wire)
  /\ loop' = IF Len(wire) < 4
             THEN NoLoop
             ELSE LET l == CacheRequestLoop(SliceFrom(wire, 4), 0, Uint(Slice(wire, 0, 4)), << >>)
                  IN  [iters |-> l.iters, stalls |-> l.stalls]
  /\ pc' = "decoded"
  /\ UNCHANGED <<Inputs, wire, panicked, decEnv, decResp>>

EncodeCacheResponse ==
  /\ kind = "resp" /\ mode = "value" /\ pc = "ready"
  /\ LET r == UpdPayloadCacheResponseBytes(resp)
     IN  panicked' = r.panic /\ wire' = r.buf
  /\ pc' = "encoded"
  /\ UNCHANGED <<Inputs, decEnv, decReq, decResp, loop>>

DecodeCacheResponse ==
  /\ kind = "resp" /\ CanDecode
  /\ decResp' = ParsePayloadCacheResponse(wire)
  /\ loop' = IF Len(wire) < 4
             THEN NoLoop
             ELSE LET l == CacheResponseLoop(wire, 4, 0, Uint(Slice(wire, 0, 4)), << >>)
                  IN  [iters |-> l.iters, stalls |-> l.stalls]
  /\ pc' = "decoded"
  /\ UNCHANGED <<Inputs, wire, panicked, decEnv, decReq>>

Next ==
  \/ EncodeEnvelope
  \/ DecodeEnvelope
  \/ EncodeCacheRequest
  \/ DecodeCacheRequest
  \/ EncodeCacheResponse
  \/ DecodeCacheResponse

Spec == Init /\ [][Next]_vars

(************************* properties: envelope **************************)
\* the 2-byte little-endian data length declared by an envelope buffer
DeclaredLength(buf) == buf[2] + 256 * buf[3]

\* C5: ParseUpdPayload returns an error and no envelope exactly when the
\* buffer is shorter than 3 bytes or the declared data length exceeds the
\* bytes after the 3-byte header; otherwise it returns the operation byte,
\* the declared length and exactly the declared-length bytes after the header.
C5_ParseUpdPayloadFailsExactlyWhenShort ==
  (kind = "env" /\ pc = "decoded") =>
    /\ decEnv.err <=> (Len(wire) < 3 \/ DeclaredLength(wire) > Len(wire) - 3)
    /\ decEnv.err => decEnv = NoUpdPayload
    /\ ~decEnv.err =>
         /\ decEnv.Operation = wire[1]
         /\ decEnv.DataLength = DeclaredLength(wire)
         /\ Len(decEnv.Data) = DeclaredLength(wire)
         /\ \A k \in 1..DeclaredLength(wire) : decEnv.Data[k] = wire[3 + k]

\* a 3-byte buffer declaring length 0 was decoded into an envelope with empty data
C5_Witness ==
  /\ kind = "env" /\ mode = "raw" /\ pc = "decoded"
  /\ Len(wire) = 3 /\ DeclaredLength(wire) = 0
  /\ ~decEnv.err /\ decEnv.Data = << >>

\* C6: no encode or decode operation panics, for any input.
C6_NoOperationPanics == ~panicked

(************************ properties: list encoders **********************)
\* the count an encoded list carries at offset 0
WireCount == Uint(Slice(wire, 0, 4))

ListValue == IF kind = "req" THEN req ELSE resp

ListEncoded == kind \in {"req", "resp"} /\ mode = "value" /\ pc = "encoded" /\ ~panicked

\* C4 (as claimed): the count written at offset 0 is the number of entries
\* in the list, whatever the NumEntries field holds; zero entries give a
\* 4-byte buffer holding 0.
C4_CountIsListLength ==
  ListEncoded =>
    /\ Len(wire) >= 4
    /\ WireCount = Len(ListValue.Entries)
    /\ ListValue.Entries = << >> => wire = <<0, 0, 0, 0>>

\* C4 (amended): the count written at offset 0 is the NumEntries field of
\* the value encoded; zero entries give a 4-byte buffer holding that field.
C4_CountIsNumEntriesField ==
  ListEncoded =>
    /\ Len(wire) >= 4
    /\ WireCount = ListValue.NumEntries
    /\ ListValue.Entries = << >> => wire = PutUint(ListValue.NumEntries, 4)

\* a request whose NumEntries field differs from its one entry was encoded
C4_Witness ==
  /\ ListEncoded /\ kind = "req"
  /\ Len(req.Entries) = 1 /\ req.NumEntries = 3
  /\ WireCount = 3

(************************** properties: round trip ***********************)
RequestWellFormed ==
  /\ kind = "req" /\ mode = "value"
  /\ req.NumEntries = Len(req.Entries)

\* C2: for every well-formed request v, ParsePayloadCacheRequest(v.Bytes())
\* is a request equal to v: same entries, same order, same counters and contacts.
C2_RequestRoundTrip ==
  (RequestWellFormed /\ pc = "decoded") =>
    /\ ~decReq.nil
    /\ decReq.NumEntries = req.NumEntries
    /\ decReq.Entries = req.Entries

ResponseWellFormed ==
  /\ kind = "resp" /\ mode = "value"
  /\ resp.NumEntries = Len(resp.Entries)
  /\ \A k \in 1..Len(resp.Entries) :
       /\ resp.Entries[k].Length = Len(MessageBytes(resp.Entries[k].Message))
       /\ ~ParseMessage(MessageBytes(resp.Entries[k].Message)).nil

\* C3: for every well-formed response v, ParsePayloadCacheResponse(v.Bytes())
\* is a response equal to v: every entry once, in the original order.
C3_ResponseRoundTrip ==
  (ResponseWellFormed /\ pc # "ready") =>
    /\ ~panicked
    /\ pc = "decoded" =>
         /\ ~decResp.nil
         /\ decResp.NumEntries = resp.NumEntries
         /\ decResp.Entries = resp.Entries

\* a well-formed response of two different entries went through the round trip
C3_Witness ==
  /\ ResponseWellFormed /\ pc = "decoded"
  /\ Len(resp.Entries) = 2 /\ resp.Entries[1] # resp.Entries[2]
  /\ Len(decResp.Entries) = 2

(************************ properties: list decoders **********************)
ListDecoded == kind \in {"req", "resp"} /\ pc = "decoded"

ListResult == IF kind = "req" THEN decReq ELSE decResp

\* C7 (as claimed): the list decoders return a value for every buffer,
\* also an empty one and one shorter than the count.
C7_ListDecodersNeverNil == ListDecoded => ~ListResult.nil

\* C7 (amended): the list decoders return nil exactly for a buffer shorter
\* than the 4-byte count, and a value with a list for every other buffer.
C7_NilExactlyWithoutCount ==
  ListDecoded =>
    /\ ListResult.nil <=> Len(wire) < 4
    /\ ~ListResult.nil => Len(ListResult.Entries) <= ListResult.NumEntries

\* a 3-byte buffer was handed to the request decoder, which returned nil
C7_Witness ==
  /\ ListDecoded /\ kind = "req"
  /\ Len(wire) = 3 /\ decReq.nil

\* C9: each iteration of an entry loop consumes at least one byte or ends
\* the loop, so the iterations are bounded by the buffer length, not by the
\* declared count.
C9_LoopBoundedByBuffer ==
  ListDecoded => loop.stalls = 0 /\ loop.iters <= Len(wire)

(*********************** properties: response buffers ********************)
ResponsePlanDecoded == kind = "resp" /\ mode = "plan" /\ pc = "decoded"

BadRespSlots == {k \in 1..Len(respSlots) : respSlots[k].bad}

\* the entries of the slots that are not bad, in buffer order
RECURSIVE GoodRespEntries(_)
GoodRespEntries(slots) ==
  IF slots = << >> THEN << >>
  ELSE (IF Head(slots).bad THEN << >> ELSE <<RespSlotEntry(Head(slots))>>)
         \o GoodRespEntries(Tail(slots))

\* C1: with n declared entries, all length prefixes correct and exactly one
\* entry k whose message bytes are garbage of the declared length, the
\* decoder skips entry k and returns the n-1 others in order.
C1_CorruptEntrySkipped ==
  (ResponsePlanDecoded /\ cut = 0 /\ count = Len(respSlots)
     /\ Cardinality(BadRespSlots) = 1) =>
    /\ ~decResp.nil
    /\ decResp.Entries = GoodRespEntries(respSlots)

(*********************** properties: request buffers *********************)
RequestPlanDecoded == kind = "req" /\ mode = "plan" /\ pc = "decoded"

BadReqSlots == {k \in 1..Len(reqSlots) : reqSlots[k].bad}

\* slots whose bytes are all in the buffer
CompleteReqSlots == IF cut = 0 THEN Len(reqSlots) ELSE Len(reqSlots) - 1

\* complete well-formed entries in the buffer
CompleteGoodReqSlots == {k \in 1..CompleteReqSlots : ~reqSlots[k].bad}

ReqEntriesUpTo(n) == [k \in 1..n |-> ReqSlotEntry(reqSlots[k])]

\* C8: a request buffer declaring n but holding only k < n complete
\* well-formed entries (then nothing, or a fragment) decodes to exactly those
\* k entries in order; the list is never longer than the declared count nor
\* than the number of complete entries in the buffer.
C8_TruncatedRequestKeepsCompleteEntries ==
  RequestPlanDecoded =>
    /\ ~decReq.nil
    /\ Len(decReq.Entries) <= count
    /\ Len(decReq.Entries) <= Cardinality(CompleteGoodReqSlots)
    /\ (BadReqSlots = {} /\ CompleteReqSlots < count) =>
         decReq.Entries = ReqEntriesUpTo(CompleteReqSlots)

\* count 3, two complete entries and a fragment of a third: two entries back
C8_Witness ==
  /\ RequestPlanDecoded /\ BadReqSlots = {}
  /\ count = 3 /\ Len(reqSlots) = 3 /\ cut = 1
  /\ reqSlots[1] # reqSlots[2]
  /\ decReq.Entries = ReqEntriesUpTo(2)

FirstBadReqSlot == CHOOSE k \in BadReqSlots : \A j \in BadReqSlots : k <= j

\* C10: when the Contact decoder fails on entry k, no entry at position k or
\* later is added: the list is exactly the k-1 entries before it, in order.
C10_ContactFailureEndsRequest ==
  (RequestPlanDecoded /\ BadReqSlots # {} /\ FirstBadReqSlot <= count) =>
    /\ ~decReq.nil
    /\ decReq.Entries = ReqEntriesUpTo(FirstBadReqSlot - 1)

\* entry 2 of 3 has a contact that does not decode: entry 1 alone comes back
C10_Witness ==
  /\ RequestPlanDecoded /\ count = 3 /\ Len(reqSlots) = 3 /\ cut = 0
  /\ BadReqSlots = {2}
  /\ decReq.Entries = ReqEntriesUpTo(1)

=============================================================================
